---- MODULE Spec2Model ----
(***************************************************************************)
(* Model of adk_agent/agent.py: the time tool get_current_time and its     *)
(* helpers _normalize_city and _search_timezones_by_city.                  *)
(*                                                                         *)
(* A Python str is a sequence of one-character strings.  A Python value    *)
(* handed to the tool is a record [type, val].  A Python dict is a TLA+    *)
(* record whose DOMAIN is the dict's key set.  None is the empty set and a *)
(* present optional value v is {v}.                                        *)
(***************************************************************************)
EXTENDS Integers, Sequences, FiniteSets, TLC

VARIABLES catalog, zones, out

vars == <<catalog, zones, out>>

(***************************************************************************)
(* Bounds of the model.                                                    *)
(***************************************************************************)
\* longest query enumerated character by character
MaxLen == 3
\* most catalog entries whose zone file cannot be loaded on the host
MaxBroken == 1

(***************************************************************************)
(* Characters.  Ascii lists the characters used, in code point order, so   *)
(* that the position in it orders characters the way Python orders them.   *)
(***************************************************************************)
Ascii == <<"\t", " ", "+", "-", "/", "0", "1", "2", "3", "4", "5", "6", "7", "8", "9",
           "A", "B", "C", "D", "E", "F", "G", "H", "I", "J", "K", "L", "M",
           "N", "O", "P", "Q", "R", "S", "T", "U", "V", "W", "X", "Y", "Z", "_",
           "a", "b", "c", "d", "e", "f", "g", "h", "i", "j", "k", "l", "m",
           "n", "o", "p", "q", "r", "s", "t", "u", "v", "w", "x", "y", "z">>

UpperCase == <<"A", "B", "C", "D", "E", "F", "G", "H", "I", "J", "K", "L", "M",
               "N", "O", "P", "Q", "R", "S", "T", "U", "V", "W", "X", "Y", "Z">>

LowerCase == <<"a", "b", "c", "d", "e", "f", "g", "h", "i", "j", "k", "l", "m",
               "n", "o", "p", "q", "r", "s", "t", "u", "v", "w", "x", "y", "z">>

\* the characters str.strip() removes
Whitespace == {" ", "\t"}

Chars == {Ascii[i] : i \in 1..Len(Ascii)}

\* ord(c), up to the gaps between the characters used
OrdTable == [c \in Chars |-> CHOOSE i \in 1..Len(Ascii) : Ascii[i] = c]

Ord(c) == OrdTable[c]

\* str.lower() on each character
LowerTable ==
    [c \in Chars |->
        IF \E i \in 1..Len(UpperCase) : UpperCase[i] = c
        THEN LowerCase[CHOOSE i \in 1..Len(UpperCase) : UpperCase[i] = c]
        ELSE c]

LowerChar(c) == LowerTable[c]

\* str.lower()
Lower(s) == [i \in 1..Len(s) |-> LowerChar(s[i])]

\* str.strip()
Strip(s) ==
    LET keep == {i \in 1..Len(s) : s[i] \notin Whitespace}
    IN  IF keep = {} THEN <<>>
        ELSE LET lo == CHOOSE i \in keep : \A j \in keep : i <= j
                 hi == CHOOSE i \in keep : \A j \in keep : j <= i
             IN  SubSeq(s, lo, hi)

\* str.replace(old, new) for one-character old and new
Replace(s, old, new) == [i \in 1..Len(s) |-> IF s[i] = old THEN new ELSE s[i]]

\* re.sub(r"_+", "_", s): every maximal run of underscores becomes one
CollapseUnderscores(s) ==
    LET kept == {i \in 1..Len(s) : ~(s[i] = "_" /\ i > 1 /\ s[i - 1] = "_")}
        Nth(n) == CHOOSE i \in kept : Cardinality({j \in kept : j < i}) = n - 1
    IN  [n \in 1..Cardinality(kept) |-> s[Nth(n)]]

\* sub in s
Contains(sub, s) ==
    \E i \in 0..(Len(s) - Len(sub)) : SubSeq(s, i + 1, i + Len(sub)) = sub

\* variant: the identifier is matched whole, not by its final segment
WholeIdentifier(tz) == tz

\* tz.split("/")[-1]
LastSegment(tz) ==
    LET slashes == {i \in 1..Len(tz) : tz[i] = "/"}
    IN  IF slashes = {} THEN tz
        ELSE LET last == CHOOSE i \in slashes : \A j \in slashes : j <= i
             IN  SubSeq(tz, last + 1, Len(tz))

\* a < b for two str, as Python compares them: by code point, a proper prefix first
StrLess(a, b) ==
    \/ /\ Len(a) < Len(b)
       /\ SubSeq(b, 1, Len(a)) = a
    \/ \E i \in 1..Len(a) :
          /\ i <= Len(b)
          /\ SubSeq(a, 1, i - 1) = SubSeq(b, 1, i - 1)
          /\ Ord(a[i]) < Ord(b[i])

RECURSIVE Sorted(_)
\* sorted(xs) for a collection of distinct str
Sorted(xs) ==
    IF xs = {} THEN <<>>
    ELSE LET least == CHOOSE x \in xs : \A y \in xs \ {x} : StrLess(x, y)
         IN  <<least>> \o Sorted(xs \ {least})

\* seq[:n]
Take(seq, n) == SubSeq(seq, 1, IF Len(seq) < n THEN Len(seq) ELSE n)

(***************************************************************************)
(* _normalize_city                                                         *)
(***************************************************************************)
\* variant: hyphens are left as they are
NormalizeCityKeepHyphen(s) ==
    CollapseUnderscores(Replace(Strip(s), " ", "_"))

NormalizeCity(s) ==
    CollapseUnderscores(Replace(Replace(Strip(s), " ", "_"), "-", "_"))

(***************************************************************************)
(* The host: available_timezones() is the variable catalog, and ZoneInfo   *)
(* loads exactly the keys in the variable zones.  Both are fixed for the   *)
(* life of the process.                                                    *)
(***************************************************************************)
Asia_Taipei == <<"A", "s", "i", "a", "/", "T", "a", "i", "p", "e", "i">>
America_New_York == <<"A", "m", "e", "r", "i", "c", "a", "/", "N", "e", "w", "_", "Y", "o", "r", "k">>
America_Port_au_Prince == <<"A", "m", "e", "r", "i", "c", "a", "/", "P", "o", "r", "t", "-", "a", "u", "-", "P", "r", "i", "n", "c", "e">>
UTC == <<"U", "T", "C">>
Etc_UTC == <<"E", "t", "c", "/", "U", "T", "C">>
NZ == <<"N", "Z">>
NZ_CHAT == <<"N", "Z", "-", "C", "H", "A", "T">>
W_SU == <<"W", "-", "S", "U">>
America_Kentucky_Louisville == <<"A", "m", "e", "r", "i", "c", "a", "/", "K", "e", "n", "t", "u", "c", "k", "y", "/", "L", "o", "u", "i", "s", "v", "i", "l", "l", "e">>
America_Louisville == <<"A", "m", "e", "r", "i", "c", "a", "/", "L", "o", "u", "i", "s", "v", "i", "l", "l", "e">>
Etc_GMT_minus_0 == <<"E", "t", "c", "/", "G", "M", "T", "-", "0">>
GMT_minus_0 == <<"G", "M", "T", "-", "0">>
\* a key ZoneInfo loads although available_timezones() leaves out the posix/ tree
posix_NZ == <<"p", "o", "s", "i", "x", "/", "N", "Z">>

\* the catalogs a host may have: none installed, a minimal one, and two cuts of tzdata
Catalogs ==
    { {},
      {UTC},
      {Asia_Taipei, America_New_York, America_Port_au_Prince, UTC, Etc_UTC, NZ},
      {Asia_Taipei, America_New_York, America_Port_au_Prince, UTC, Etc_UTC, NZ,
       NZ_CHAT, W_SU, America_Kentucky_Louisville, America_Louisville,
       Etc_GMT_minus_0, GMT_minus_0} }

\* keys outside the catalog that ZoneInfo still loads where tzdata is installed
Unlisted == {posix_NZ}

\* ZoneInfo(key): the zone, or the exception it raises
ZoneInfo(key) ==
    IF key \in zones THEN [ok |-> TRUE, exc |-> ""]
    ELSE IF key \in catalog THEN [ok |-> FALSE, exc |-> "ValueError"]
    ELSE [ok |-> FALSE, exc |-> "ZoneInfoNotFoundError"]

(***************************************************************************)
(* Python values and what a call does to the host.                         *)
(***************************************************************************)
None == {}
Some(v) == {v}

Str(s) == [type |-> "str", val |-> s]
NoneValue == [type |-> "NoneType", val |-> <<>>]
IntValue(digit) == [type |-> "int", val |-> <<digit>>]
EmptyList == [type |-> "list", val |-> <<>>]

\* bool(city)
Truthy(v) ==
    CASE v.type = "str" -> v.val # <<>>
      [] v.type = "int" -> v.val # <<"0">>
      [] v.type = "list" -> v.val # <<>>
      [] OTHER -> FALSE

\* the reads of the host a call makes, in order
ReadCatalog == [op |-> "available_timezones", key |-> <<>>]
LoadZone(key) == [op |-> "ZoneInfo", key |-> key]
ReadClock == [op |-> "datetime.now", key |-> <<>>]

(***************************************************************************)
(* _search_timezones_by_city: the candidates, as a set (the list's order   *)
(* is the iteration order of a set and is never relied on).                *)
(***************************************************************************)
ExactMatches(norm) ==
    {tz \in catalog : Lower(LastSegment(tz)) = Lower(norm)}

PartialMatches(norm) ==
    {tz \in catalog : Contains(Lower(norm), Lower(LastSegment(tz)))}

\* variant: the partial matches are returned along with the exact ones
SearchExactAndPartial(city) ==
    LET norm == NormalizeCity(city)
    IN  ExactMatches(norm) \cup PartialMatches(norm)

SearchTimezonesByCity(city) ==
    LET norm == NormalizeCity(city)
        exact == ExactMatches(norm)
    IN  IF exact # {} THEN exact ELSE PartialMatches(norm)

(***************************************************************************)
(* get_current_time.  A call ends in [raised, ret, effects]: the exception *)
(* that escaped (None if none), the dict returned, and the host reads.     *)
(***************************************************************************)
\* the most candidates an ambiguous result lists
MaxCandidates == 10

\* the f-string templates of the error messages
InvalidInputMessage == "Input must be a non-empty city or IANA timezone string."
UnresolvedMessage == "Sorry, I couldn't resolve a timezone for '{city}'. Try an IANA name like 'Asia/Taipei'."
MultipleMessage == "Multiple timezones matched '{city}'. Please choose one from 'candidates'."
FailedMessage == "Failed to get time for '{city}' via timezone '{tz_name}': {e}"
ReportMessage == "The current time in {city} is {now}"

Returned(dict, effects) == [raised |-> None, ret |-> Some(dict), effects |-> effects]
Raised(exc, effects) == [raised |-> Some(exc), ret |-> None, effects |-> effects]

InvalidInput ==
    [status |-> "error",
     error_message |-> [template |-> InvalidInputMessage]]

Success(city, tz_name) ==
    [status |-> "success",
     report |-> [template |-> ReportMessage, city |-> city, zone |-> tz_name],
     timezone |-> tz_name,
     candidates |-> None]

Unresolved(city) ==
    [status |-> "error",
     error_message |-> [template |-> UnresolvedMessage, city |-> city]]

\* variant: the sorted candidates are not cut to the first ten
AmbiguousUncapped(city, candidates) ==
    [status |-> "error",
     error_message |-> [template |-> MultipleMessage, city |-> city],
     candidates |-> Some(Sorted(candidates))]

Ambiguous(city, candidates) ==
    [status |-> "error",
     error_message |-> [template |-> MultipleMessage, city |-> city],
     candidates |-> Some(Take(Sorted(candidates), MaxCandidates))]

\* variant: a zone that cannot be constructed is reported as an unknown city
ConstructionFailedAsUnresolved(city, tz_name, e) == Unresolved(city)

ConstructionFailed(city, tz_name, e) ==
    [status |-> "error",
     error_message |-> [template |-> FailedMessage,
                        city |-> city, tz_name |-> tz_name, e |-> e]]

\* variant: of several candidates the first in order is taken
CityPathFirstCandidate(city, before) ==
    LET candidates == SearchTimezonesByCity(city)
        searched == Append(before, ReadCatalog)
    IN  IF candidates = {} THEN Returned(Unresolved(city), searched)
        ELSE LET tz_name == Sorted(candidates)[1]
                 tz == ZoneInfo(tz_name)
                 loaded == Append(searched, LoadZone(tz_name))
             IN  IF tz.ok
                 THEN Returned(Success(city, tz_name), Append(loaded, ReadClock))
                 ELSE Returned(ConstructionFailed(city, tz_name, tz.exc), loaded)

\* the city path, entered with the host reads made so far
CityPath(city, before) ==
    LET candidates == SearchTimezonesByCity(city)
        searched == Append(before, ReadCatalog)
    IN  IF candidates = {} THEN Returned(Unresolved(city), searched)
        ELSE IF Cardinality(candidates) > 1
             THEN Returned(Ambiguous(city, candidates), searched)
        ELSE LET tz_name == CHOOSE tz \in candidates : TRUE
                 tz == ZoneInfo(tz_name)
                 loaded == Append(searched, LoadZone(tz_name))
             IN  IF tz.ok
                 THEN Returned(Success(city, tz_name), Append(loaded, ReadClock))
                 ELSE Returned(ConstructionFailed(city, tz_name, tz.exc), loaded)

\* variant: the direct path without its except clause
DirectPathUncaught(city) ==
    LET tz == ZoneInfo(city)
    IN  IF tz.ok
        THEN Returned(Success(city, city), <<LoadZone(city), ReadClock>>)
        ELSE Raised(tz.exc, <<LoadZone(city)>>)

\* the direct path; a failed construction goes on to the city path
DirectPath(city) ==
    LET tz == ZoneInfo(city)
    IN  IF tz.ok
        THEN Returned(Success(city, city), <<LoadZone(city), ReadClock>>)
        ELSE CityPath(city, <<LoadZone(city)>>)

\* variant: the guard tests the type only, not emptiness
GetCurrentTimeTypeCheckOnly(city) ==
    IF city.type # "str" THEN Returned(InvalidInput, <<>>)
    ELSE IF Contains(<<"/">>, city.val) THEN DirectPath(city.val)
    ELSE CityPath(city.val, <<>>)

GetCurrentTimeResult(city) ==
    IF ~Truthy(city) \/ city.type # "str" THEN Returned(InvalidInput, <<>>)
    ELSE IF Contains(<<"/">>, city.val) THEN DirectPath(city.val)
    ELSE CityPath(city.val, <<>>)

(***************************************************************************)
(* The callers.  out[k] is the call caller k made: the function, its       *)
(* argument, and how the call ended.  No call reads or writes anything a   *)
(* call leaves behind, so each caller is followed through one call.        *)
(***************************************************************************)
Callers == {1, 2}

Idle == [fn |-> "", arg |-> NoneValue, raised |-> None, ret |-> None, effects |-> <<>>]

\* the characters of the queries enumerated character by character
QueryChars == {"z", " ", "-", "/"}

\* the queries given by name
New_York_spaced == <<"N", "e", "w", " ", "Y", "o", "r", "k">>
new_york_lower == <<"n", "e", "w", "_", "y", "o", "r", "k">>
New_York_hyphen == <<"N", "e", "w", "-", "Y", "o", "r", "k">>
NEW_YORK_wide == <<" ", "N", "E", "W", " ", "-", "_", "Y", "O", "R", "K", "\t">>
NewYork_joined == <<"N", "e", "w", "Y", "o", "r", "k">>
New_York_led == <<"_", "N", "e", "w", "_", "Y", "o", "r", "k">>
Port_au_Prince == <<"P", "o", "r", "t", "-", "a", "u", "-", "P", "r", "i", "n", "c", "e">>
port_au_prince_spaced == <<"p", "o", "r", "t", " ", "a", "u", " ", "p", "r", "i", "n", "c", "e">>
TAIPEI_padded == <<"T", "A", "I", "P", "E", "I", " ">>
Utc_mixed == <<"U", "t", "c">>
Louisville == <<"L", "o", "u", "i", "s", "v", "i", "l", "l", "e">>
Nonexistent_Place_Zzz == <<"N", "o", "n", "e", "x", "i", "s", "t", "e", "n", "t", "_", "P", "l", "a", "c", "e", "_", "Z", "z", "z">>
Asia_Taipei_padded == <<"A", "s", "i", "a", "/", "T", "a", "i", "p", "e", "i", " ">>
Asia_Nowhere == <<"A", "s", "i", "a", "/", "N", "o", "w", "h", "e", "r", "e">>
a_slash_T == <<"a", "/", "T">>

AllIds == UNION Catalogs \cup Unlisted

NamedQueries ==
    AllIds \cup {LastSegment(tz) : tz \in AllIds} \cup
    {New_York_spaced, new_york_lower, New_York_hyphen, NEW_YORK_wide, NewYork_joined,
     New_York_led, Port_au_Prince, port_au_prince_spaced, TAIPEI_padded, Utc_mixed,
     Louisville, Nonexistent_Place_Zzz, Asia_Taipei_padded, Asia_Nowhere, a_slash_T}

\* every str the model hands to the tool; the empty str is among them
Queries == NamedQueries \cup UNION {[1..n -> QueryChars] : n \in 0..MaxLen}

\* every value the model hands to the tool
Inputs ==
    {Str(s) : s \in Queries} \cup {NoneValue, IntValue("0"), IntValue("5"), EmptyList}

\* the queries of the two-caller specification
PairQueries ==
    {New_York_spaced, new_york_lower, New_York_hyphen, NEW_YORK_wide, NewYork_joined,
     New_York_led, Port_au_Prince, port_au_prince_spaced, NZ, <<"n", "z">>}

Init ==
    /\ catalog \in Catalogs
    /\ \E broken \in SUBSET catalog :
          /\ Cardinality(broken) <= MaxBroken
          /\ zones = (catalog \ broken) \cup (IF catalog = {} THEN {} ELSE Unlisted)
    /\ out = [k \in Callers |-> Idle]

\* caller k calls get_current_time(city)
GetCurrentTime(k, city) ==
    /\ out[k] = Idle
    /\ out' = [out EXCEPT ![k] =
                  [fn |-> "get_current_time", arg |-> city] @@ GetCurrentTimeResult(city)]
    /\ UNCHANGED <<catalog, zones>>

\* caller k calls _search_timezones_by_city(city)
SearchTimezones(k, city) ==
    /\ out[k] = Idle
    /\ out' = [out EXCEPT ![k] =
                  [fn |-> "_search_timezones_by_city", arg |-> Str(city), raised |-> None,
                   ret |-> Some(SearchTimezonesByCity(city)), effects |-> <<ReadCatalog>>]]
    /\ UNCHANGED <<catalog, zones>>

\* one caller, every input
Next ==
    \/ \E city \in Inputs : GetCurrentTime(1, city)
    \/ \E city \in Queries : SearchTimezones(1, city)

Spec == Init /\ [][Next]_vars

\* two callers, the queries that differ in case, separators and padding
NextPair ==
    \/ \E k \in Callers, city \in PairQueries : GetCurrentTime(k, Str(city))
    \/ \E k \in Callers, city \in PairQueries : SearchTimezones(k, city)

SpecPair == Init /\ [][NextPair]_vars

(***************************************************************************)
(* Reading a finished call.                                                *)
(***************************************************************************)
CalledGetCurrentTime(k) == out[k].fn = "get_current_time"
CalledSearch(k) == out[k].fn = "_search_timezones_by_city"

\* the value caller k's call returned (the call returned one)
Ret(k) == CHOOSE r \in out[k].ret : TRUE

\* caller k called get_current_time with a non-empty str
AskedStr(k) ==
    /\ CalledGetCurrentTime(k)
    /\ out[k].arg.type = "str"
    /\ out[k].arg.val # <<>>

HasSlash(s) == \E i \in 1..Len(s) : s[i] = "/"

\* the three shapes of result
IsSuccess(d) ==
    /\ DOMAIN d = {"status", "report", "timezone", "candidates"}
    /\ d.status = "success"
    /\ d.candidates = None

IsAmbiguous(d) ==
    /\ DOMAIN d = {"status", "error_message", "candidates"}
    /\ d.status = "error"
    /\ d.candidates # None

IsFailure(d) ==
    /\ DOMAIN d = {"status", "error_message"}
    /\ d.status = "error"

IsInvalidInput(d) ==
    IsFailure(d) /\ d.error_message = [template |-> InvalidInputMessage]

IsUnresolvable(d) ==
    /\ IsFailure(d)
    /\ DOMAIN d.error_message = {"template", "city"}
    /\ d.error_message.template = UnresolvedMessage

IsConstructionFailure(d) ==
    /\ IsFailure(d)
    /\ DOMAIN d.error_message = {"template", "city", "tz_name", "e"}
    /\ d.error_message.template = FailedMessage

\* the candidates of an ambiguous result
Listed(d) == CHOOSE l \in d.candidates : TRUE

\* the catalog identifiers whose final segment is exactly seg
Sharing(seg) == {tz \in catalog : LastSegment(tz) = seg}

(***************************************************************************)
(* C1.  For every identifier z in the catalog (whose zone the host loads), *)
(* also one without a '/', get_current_time(z) returns success with        *)
(* 'timezone' equal to z.                                                  *)
(***************************************************************************)
C1_CatalogIdSucceeds ==
    \A k \in Callers :
        (AskedStr(k) /\ out[k].arg.val \in catalog \cap zones)
        => /\ out[k].ret # None
           /\ IsSuccess(Ret(k))
           /\ Ret(k).timezone = out[k].arg.val

(***************************************************************************)
(* C2.  For every catalog identifier z (whose zone the host loads) with    *)
(* final segment S, get_current_time(S) returns success with 'timezone' z  *)
(* when no other catalog identifier has final segment S, and the ambiguous *)
(* result when several have; hyphenated segments included.                 *)
(***************************************************************************)
C2_FinalSegmentResolves ==
    \A k \in Callers :
        AskedStr(k) =>
            \A z \in catalog \cap zones :
                LastSegment(z) = out[k].arg.val
                => /\ out[k].ret # None
                   /\ IF Sharing(out[k].arg.val) = {z}
                      THEN IsSuccess(Ret(k)) /\ Ret(k).timezone = z
                      ELSE IsAmbiguous(Ret(k))

(***************************************************************************)
(* C3.  Two slash-free queries that differ only in letter case, in the     *)
(* spaces, hyphens and underscores (one or several) between their words,   *)
(* and in surrounding whitespace get the same candidate set from           *)
(* _search_timezones_by_city, and from get_current_time the same kind of   *)
(* result with the same timezone or candidates.                            *)
(***************************************************************************)
Separators == {" ", "-", "_"}

RECURSIVE DropLeading(_, _)
DropLeading(s, drop) ==
    IF s # <<>> /\ Head(s) \in drop THEN DropLeading(Tail(s), drop) ELSE s

RECURSIVE DropTrailing(_, _)
DropTrailing(s, drop) ==
    IF s # <<>> /\ s[Len(s)] \in drop THEN DropTrailing(SubSeq(s, 1, Len(s) - 1), drop) ELSE s

\* the query without its surrounding whitespace
Unpadded(s) == DropTrailing(DropLeading(s, Whitespace), Whitespace)

RECURSIVE FirstWord(_)
FirstWord(s) ==
    IF s = <<>> \/ Head(s) \in Separators THEN <<>> ELSE <<Head(s)>> \o FirstWord(Tail(s))

RECURSIVE WordsOf(_)
\* the words of a str that starts with a word, lower-cased
WordsOf(s) ==
    IF s = <<>> THEN <<>>
    ELSE LET w == FirstWord(s)
             rest == DropLeading(SubSeq(s, Len(w) + 1, Len(s)), Separators)
         IN  <<[i \in 1..Len(w) |-> LowerChar(w[i])]>> \o WordsOf(rest)

\* words separated by separators, nothing but whitespace around them
Worded(s) ==
    LET u == Unpadded(s)
    IN  /\ u # <<>>
        /\ ~HasSlash(u)
        /\ Head(u) \notin Separators
        /\ u[Len(u)] \notin Separators

SameWords(a, b) ==
    /\ Worded(a)
    /\ Worded(b)
    /\ WordsOf(Unpadded(a)) = WordsOf(Unpadded(b))

SameOutcome(d, e) ==
    /\ DOMAIN d = DOMAIN e
    /\ d.status = e.status
    /\ "timezone" \in DOMAIN d => d.timezone = e.timezone
    /\ "candidates" \in DOMAIN d => d.candidates = e.candidates
    /\ "error_message" \in DOMAIN d => d.error_message.template = e.error_message.template

C3_SeparatorsAndCaseIgnored ==
    \A j, k \in Callers :
        (/\ out[j].fn # ""
         /\ out[j].fn = out[k].fn
         /\ SameWords(out[j].arg.val, out[k].arg.val))
        => /\ out[j].raised = out[k].raised
           /\ out[j].ret # None
           /\ out[k].ret # None
           /\ IF CalledSearch(j)
              THEN Ret(j) = Ret(k)
              ELSE SameOutcome(Ret(j), Ret(k))

C3_Witness ==
    /\ CalledGetCurrentTime(1)
    /\ CalledGetCurrentTime(2)
    /\ out[1].arg.val = New_York_spaced
    /\ out[2].arg.val = New_York_hyphen
    /\ SameWords(New_York_spaced, New_York_hyphen)
    /\ Ret(1).status = "success"
    /\ Ret(2).timezone = America_New_York

(***************************************************************************)
(* C4.  A non-null 'candidates' list returned by get_current_time is in    *)
(* ascending order, has at most 10 entries, and is the first 10 (or all,   *)
(* if fewer) of the sorted candidate set.                                  *)
(***************************************************************************)
C4_CandidatesSortedAndCapped ==
    \A k \in Callers :
        (/\ AskedStr(k)
         /\ out[k].ret # None
         /\ "candidates" \in DOMAIN Ret(k)
         /\ Ret(k).candidates # None)
        => LET l == Listed(Ret(k))
               full == SearchTimezonesByCity(out[k].arg.val)
               shown == {l[i] : i \in 1..Len(l)}
           IN  /\ \A i \in 1..(Len(l) - 1) : StrLess(l[i], l[i + 1])
               /\ Len(l) <= 10
               /\ Len(l) = (IF Cardinality(full) < 10 THEN Cardinality(full) ELSE 10)
               /\ shown \subseteq full
               /\ \A x \in shown, y \in full \ shown : StrLess(x, y)

C4_Witness ==
    /\ AskedStr(1)
    /\ IsAmbiguous(Ret(1))
    /\ Cardinality(SearchTimezonesByCity(out[1].arg.val)) > 10
    /\ Len(Listed(Ret(1))) = 10

(***************************************************************************)
(* C5.  For the empty string, None and every non-string value              *)
(* get_current_time returns the input-validation error (status error, no   *)
(* timezone, no candidates) and reads neither the catalog nor the clock.   *)
(***************************************************************************)
C5_InvalidInputRejectedUnread ==
    \A k \in Callers :
        (/\ CalledGetCurrentTime(k)
         /\ (out[k].arg.type # "str" \/ out[k].arg.val = <<>>))
        => /\ out[k].raised = None
           /\ out[k].ret = Some(InvalidInput)
           /\ IsInvalidInput(Ret(k))
           /\ out[k].effects = <<>>

C5_Witness ==
    /\ catalog # {}
    /\ CalledGetCurrentTime(1)
    /\ out[1].arg = Str(<<>>)
    /\ IsInvalidInput(Ret(1))

(***************************************************************************)
(* C6.  Every call of get_current_time, whatever the input, returns one    *)
(* well-formed result (success, ambiguous or failure) and lets no          *)
(* exception escape, also when the zone cannot be constructed.             *)
(***************************************************************************)
C6_AlwaysReturnsResult ==
    \A k \in Callers :
        CalledGetCurrentTime(k)
        => /\ out[k].raised = None
           /\ Cardinality(out[k].ret) = 1
           /\ Cardinality({shape \in {"success", "ambiguous", "failure"} :
                  \/ shape = "success" /\ IsSuccess(Ret(k))
                  \/ shape = "ambiguous" /\ IsAmbiguous(Ret(k))
                  \/ shape = "failure" /\ IsFailure(Ret(k))}) = 1

C6_Witness ==
    /\ AskedStr(1)
    /\ HasSlash(out[1].arg.val)
    /\ out[1].arg.val \in catalog \ zones
    /\ IsFailure(Ret(1))

(***************************************************************************)
(* C7.  In _search_timezones_by_city, if some catalog identifier's final   *)
(* segment equals the normalized query case-insensitively, the result is   *)
(* exactly those identifiers; the substring matches are the result only    *)
(* when there is no such identifier.                                       *)
(***************************************************************************)
C7_ExactMatchesShadowPartial ==
    \A k \in Callers :
        CalledSearch(k)
        => LET norm == NormalizeCity(out[k].arg.val)
               equal == {tz \in catalog : Lower(LastSegment(tz)) = Lower(norm)}
               within == {tz \in catalog : Contains(Lower(norm), Lower(LastSegment(tz)))}
           IN  /\ out[k].ret # None
               /\ Ret(k) = (IF equal # {} THEN equal ELSE within)

C7_Witness ==
    /\ CalledSearch(1)
    /\ out[1].arg.val = NZ
    /\ Ret(1) = {NZ}
    /\ NZ_CHAT \in catalog

(***************************************************************************)
(* C8.  For a non-empty str the direct path does not answer, the number of *)
(* candidates decides the result: none gives the unresolvable failure, one *)
(* gives success with that candidate as 'timezone' (if its zone loads),    *)
(* two or more give the ambiguous result.                                  *)
(***************************************************************************)
C8_CandidateCountDecides ==
    \A k \in Callers :
        (/\ AskedStr(k)
         /\ ~(HasSlash(out[k].arg.val) /\ out[k].arg.val \in zones))
        => LET found == SearchTimezonesByCity(out[k].arg.val)
           IN  /\ out[k].ret # None
               /\ found = {} => IsUnresolvable(Ret(k))
               /\ \A tz \in found :
                     (found = {tz} /\ tz \in zones)
                     => IsSuccess(Ret(k)) /\ Ret(k).timezone = tz
               /\ Cardinality(found) >= 2
                  => IsAmbiguous(Ret(k)) /\ Ret(k).status # "success"

C8_Witness ==
    /\ AskedStr(1)
    /\ out[1].arg.val = Louisville
    /\ Cardinality(SearchTimezonesByCity(Louisville)) = 2
    /\ IsAmbiguous(Ret(1))

(***************************************************************************)
(* C9.  When the city path finds one candidate and its zone cannot be      *)
(* constructed, get_current_time returns a failure that reports the cause  *)
(* and names the candidate, differs from the unresolvable failure and from *)
(* the ambiguous result, and carries no 'timezone' and no 'candidates'.    *)
(***************************************************************************)
C9_ConstructionFailureReported ==
    \A k \in Callers :
        (/\ AskedStr(k)
         /\ ~(HasSlash(out[k].arg.val) /\ out[k].arg.val \in zones))
        => \A tz \in catalog \ zones :
              SearchTimezonesByCity(out[k].arg.val) = {tz}
              => /\ out[k].raised = None
                 /\ out[k].ret # None
                 /\ IsConstructionFailure(Ret(k))
                 /\ Ret(k).error_message.tz_name = tz
                 /\ Ret(k).error_message.e = ZoneInfo(tz).exc
                 /\ ~IsUnresolvable(Ret(k))
                 /\ ~IsAmbiguous(Ret(k))
                 /\ "timezone" \notin DOMAIN Ret(k)
                 /\ "candidates" \notin DOMAIN Ret(k)

C9_Witness ==
    /\ AskedStr(1)
    /\ out[1].arg.val = LastSegment(Asia_Taipei)
    /\ Asia_Taipei \in catalog \ zones
    /\ IsConstructionFailure(Ret(1))

(***************************************************************************)
(* C10.  A query that contains '/' and cannot be constructed as a zone on  *)
(* the direct path goes on to city-name matching with the same string and  *)
(* ends in the unresolvable failure, never in success or a candidate list. *)
(***************************************************************************)
C10_SlashQueryFallsThroughUnresolved ==
    \A k \in Callers :
        (/\ AskedStr(k)
         /\ HasSlash(out[k].arg.val)
         /\ out[k].arg.val \notin zones)
        => /\ out[k].ret # None
           /\ IsUnresolvable(Ret(k))
           /\ Ret(k).error_message.city = out[k].arg.val
           /\ out[k].effects = <<LoadZone(out[k].arg.val), ReadCatalog>>

C10_Witness ==
    /\ AskedStr(1)
    /\ out[1].arg.val = a_slash_T
    /\ Asia_Taipei \in catalog
    /\ IsUnresolvable(Ret(1))

====
